---- MODULE Spec2Model ----
(***************************************************************************)
(* A model of algosdk/template.py: the contract templates (Split, HTLC,    *)
(* DynamicFee, PeriodicPayment, LimitOrder), the byte-patching function    *)
(* inject with its helper put_uvarint, and Split's payment builder.        *)
(*                                                                         *)
(* Python values are modelled as tagged records (PyInt, PyNone, PyAddr,    *)
(* PyText, PyBytes); byte strings and lists are sequences; a raised        *)
(* exception is the status of the call that raised it.                     *)
(***************************************************************************)
EXTENDS Integers, Sequences, FiniteSets, TLC

VARIABLES
    self,           \* the template instance: a record of its fields
    ctor,           \* observation: the arguments self was constructed with
    outs,           \* observation: get_program results since the last field assignment
    sf,             \* the last Split.get_send_funds_transaction call and its outcome
    uv,             \* the last put_uvarint call: x, buf before, buf after, return value
    orig,           \* inject: the caller's byte program
    offsets,        \* inject: the caller's list of offsets (updated in place)
    values,         \* inject: the caller's list of values
    values_types,   \* inject: the caller's list of value types
    res,            \* inject: the local res
    i,              \* inject: the loop index
    pc,             \* inject: idle | loop | returned | <the exception raised>
    offsets0,       \* observation: the caller's offsets as they were at the first call
    patchedAt,      \* observation: the offset each processed placeholder was replaced at
    lenAt,          \* observation: len(res) before each replacement
    calls,          \* observation: number of inject calls made with these arguments
    firstRes        \* observation: what the first of these calls returned

vars == <<self, ctor, outs, sf, uv, orig, offsets, values, values_types, res, i, pc,
          offsets0, patchedAt, lenAt, calls, firstRes>>

templateVars == <<self, ctor, outs>>
injectVars == <<orig, offsets, values, values_types, res, i, pc,
                offsets0, patchedAt, lenAt, calls, firstRes>>

-----------------------------------------------------------------------------
(* Python values *)

PyInt(n) == [ty |-> "int", v |-> n]
PyNone == [ty |-> "NoneType"]
PyAddr(a) == [ty |-> "str", addr |-> a]
PyText(cs) == [ty |-> "str", chars |-> cs]
PyBytes(bs) == [ty |-> "bytes", chars |-> bs]

Min(a, b) == IF a <= b THEN a ELSE b

\* arr[a:b] for 0 <= a, 0 <= b: Python clamps both ends to len(arr)
Slice(arr, a, b) == SubSeq(arr, Min(a, Len(arr)) + 1, Min(b, Len(arr)))

\* bytes([b] * n)
Repeat(b, n) == [k \in 1..n |-> b]

-----------------------------------------------------------------------------
(* put_uvarint *)

\* (x & 0xFF) | 0x80
continuation_byte_noflag(x) == x % 256
continuation_byte(x) == IF x % 256 >= 128 THEN x % 256 ELSE (x % 256) + 128

\* x >>= 7
shift7_by8(x) == x \div 256
shift7(x) == x \div 128

RECURSIVE put_uvarint_loop(_, _, _)
put_uvarint_loop(buf, x, n) ==
    IF x >= 128
    THEN put_uvarint_loop(Append(buf, continuation_byte(x)), shift7(x), n + 1)
    ELSE [buf |-> Append(buf, x % 256), ret |-> n + 1]

\* the list buf after the call, and the value returned
put_uvarint(buf, x) == put_uvarint_loop(buf, x, 0)

-----------------------------------------------------------------------------
(* base64 (the standard library's codec, on sequences of character codes) *)

PadChar == 61

b64_sextet(c) ==
    IF c >= 65 /\ c <= 90 THEN c - 65
    ELSE IF c >= 97 /\ c <= 122 THEN c - 71
    ELSE IF c >= 48 /\ c <= 57 THEN c + 4
    ELSE IF c = 43 THEN 62
    ELSE IF c = 47 THEN 63
    ELSE 64

b64_char(s) ==
    IF s <= 25 THEN s + 65
    ELSE IF s <= 51 THEN s + 71
    ELSE IF s <= 61 THEN s - 4
    ELSE IF s = 62 THEN 43
    ELSE 47

\* binascii.a2b_base64 without strict mode, stated position by position
\* instead of as its character loop: characters outside the alphabet are
\* skipped; a pad character ends the input when it completes a quad (the
\* first one after three data characters, the second one after two, data
\* characters in between starting the count again); leftover characters of
\* an unfinished quad at the end of the input are an error.
b64_is_data(c) == c # PadChar /\ b64_sextet(c) < 64

\* quad_pos when the character at k is read
b64_quad_pos(cs, k) == Cardinality({j \in 1..(k - 1) : b64_is_data(cs[j])}) % 4

\* pads when the character at k is read, counted as if quad_pos >= 2
b64_pads_since(cs, k, data) ==
    Cardinality({j \in 1..(k - 1) : cs[j] = PadChar /\ \A d \in data : d < j})
b64_pads(cs, k) == b64_pads_since(cs, k, {j \in 1..(k - 1) : b64_is_data(cs[j])})

b64_pad_ends(quad_pos, pads) == quad_pos >= 2 /\ quad_pos + pads + 1 >= 4
b64_ends_at(cs, k) ==
    cs[k] = PadChar /\ b64_pad_ends(b64_quad_pos(cs, k), b64_pads(cs, k))

\* the position of the pad character that ends the input, or len + 1
b64_first(cs, stops) ==
    IF stops = {} THEN Len(cs) + 1 ELSE CHOOSE k \in stops : \A m \in stops : k <= m
b64_stop(cs) == b64_first(cs, {k \in 1..Len(cs) : b64_ends_at(cs, k)})

b64_sextets(data) == [k \in 1..Len(data) |-> b64_sextet(data[k])]

\* byte j of the output, from the 6-bit values d
b64_byte(d, j) ==
    LET g == 4 * ((j - 1) \div 3)
    IN IF (j - 1) % 3 = 0 THEN (d[g + 1] * 4) + (d[g + 2] \div 16)
       ELSE IF (j - 1) % 3 = 1 THEN ((d[g + 2] % 16) * 16) + (d[g + 3] \div 4)
       ELSE ((d[g + 3] % 4) * 64) + d[g + 4]

b64_nbytes(nd) ==
    ((nd \div 4) * 3) + (IF nd % 4 = 2 THEN 1 ELSE IF nd % 4 = 3 THEN 2 ELSE 0)

b64_bytes(d, ended) ==
    [err |-> ~ended /\ Len(d) % 4 # 0,
     bytes |-> [j \in 1..b64_nbytes(Len(d)) |-> b64_byte(d, j)]]

b64decode_to(cs, stop) ==
    b64_bytes(b64_sextets(SelectSeq(SubSeq(cs, 1, stop - 1), b64_is_data)),
              stop <= Len(cs))

b64decode(cs) == b64decode_to(cs, b64_stop(cs))

\* binascii.b2a_base64 without the newline
b64encode(bs) ==
    LET n == Len(bs)
        at(k) == IF k <= n THEN bs[k] ELSE 0
        char(j) ==
            LET g == 3 * ((j - 1) \div 4)
            IN IF (j - 1) % 4 = 0 THEN b64_char(at(g + 1) \div 4)
               ELSE IF (j - 1) % 4 = 1
               THEN b64_char(((at(g + 1) % 4) * 16) + (at(g + 2) \div 16))
               ELSE IF (j - 1) % 4 = 2
               THEN IF g + 2 > n THEN PadChar
                    ELSE b64_char(((at(g + 2) % 16) * 4) + (at(g + 3) \div 64))
               ELSE IF g + 3 > n THEN PadChar ELSE b64_char(at(g + 3) % 64)
    IN [j \in 1..(4 * ((n + 2) \div 3)) |-> char(j)]

-----------------------------------------------------------------------------
(* inject *)

AddressLen == 32

\* encoding.decode_address: the raw 32 bytes of an address; each address of
\* the model decodes to 32 copies of its own byte.  A value that already is
\* raw bytes (DynamicFee's default close_remainder_address) is taken as is.
AddressByte(a) == IF a = "A" THEN 161 ELSE IF a = "B" THEN 178 ELSE 195

decode_address(val) ==
    IF val.ty = "bytes" THEN val.chars ELSE Repeat(AddressByte(val.addr), AddressLen)

\* replace, the closure of inject
replace_dropsNext(arr, new_val, offset, place_holder_length) ==
    Slice(arr, 0, offset) \o new_val
        \o Slice(arr, offset + place_holder_length + 1, Len(arr))
replace(arr, new_val, offset, place_holder_length) ==
    Slice(arr, 0, offset) \o new_val \o Slice(arr, offset + place_holder_length, Len(arr))

\* "update offsets": every entry of the list moves by dec_len - 1
update_offsets_byDecLen(offs, dec_len) ==
    IF dec_len # 0 THEN [o \in DOMAIN offs |-> offs[o] + dec_len] ELSE offs
update_offsets(offs, dec_len) ==
    IF dec_len # 0 THEN [o \in DOMAIN offs |-> offs[o] + dec_len - 1] ELSE offs

Raised(exc, r, offs) == [status |-> exc, res |-> r, offsets |-> offs]
Patched(r, offs) == [status |-> "ok", res |-> r, offsets |-> offs]

\* val_type == int, with e the outcome of put_uvarint(buf, val)
inject_int(r, offs, e, k) ==
    Patched(replace(r, e.buf, offs[k + 1], 1), update_offsets(offs, e.ret))

\* val_type == "address"
inject_address(r, offs, val, k) ==
    Patched(replace(r, val, offs[k + 1], AddressLen), update_offsets(offs, 0))

\* val_type == "base64", with val decoded and e the outcome of
\* put_uvarint(buf, len(val))
inject_bytes(r, offs, val, e, k) ==
    Patched(replace(r, e.buf \o val, offs[k + 1], 2),
            update_offsets(offs, e.ret + Len(val)))

inject_base64(r, offs, d, k) ==
    IF d.err THEN Raised("binascii.Error", r, offs)
    ELSE inject_bytes(r, offs, d.bytes, put_uvarint(<<>>, Len(d.bytes)), k)

\* one iteration of inject's loop, for index k (from 0): res and the
\* caller's offsets after it, or the exception it raises
inject_body(r, offs, val, val_type, k) ==
    IF val_type = "int"
    THEN IF val.ty # "int" THEN Raised("TypeError", r, offs)
         ELSE inject_int(r, offs, put_uvarint(<<>>, val.v), k)
    ELSE IF val_type = "address"
    THEN inject_address(r, offs, decode_address(val), k)
    ELSE IF val_type = "base64"
    THEN inject_base64(r, offs, b64decode(val.chars), k)
    ELSE Raised("Exception", r, offs)

RECURSIVE inject_loop(_, _, _, _, _)
\* the rest of the loop after an iteration with outcome b
inject_next(b, vals, types, k) ==
    IF b.status # "ok" THEN b ELSE inject_loop(b.res, b.offsets, vals, types, k + 1)

inject_loop(r, offs, vals, types, k) ==
    IF k >= Len(offs)
    THEN [status |-> "returned", res |-> r, offsets |-> offs]
    ELSE inject_next(inject_body(r, offs, vals[k + 1], types[k + 1], k), vals, types, k)

\* a whole call: what it returns or raises, and the caller's offsets after it
inject(prog, offs, vals, types) ==
    IF ~(Len(offs) = Len(vals) /\ Len(vals) = Len(types))
    THEN Raised("AssertionError", prog, offs)
    ELSE inject_loop(prog, offs, vals, types, 0)

-----------------------------------------------------------------------------
(* the templates *)

\* Split.get_program: the text of orig, as character codes (one source
\* line of the literal per group)
SplitOrigText ==
    \* "ASAIAQUCAAYHCAkmAyDYHIR7TIW5eM/WAZcXdEDqv7BD+baMN6i2/A5JatG"
    << 65, 83, 65, 73, 65, 81, 85, 67, 65, 65, 89, 72, 67, 65, 107, 109,
        65, 121, 68, 89, 72, 73, 82, 55, 84, 73, 87, 53, 101, 77, 47, 87,
        65, 90, 99, 88, 100, 69, 68, 113, 118, 55, 66, 68, 43, 98, 97, 77,
        78, 54, 105, 50, 47, 65, 53, 74, 97, 116, 71 >>
    \* "bNCDKsaoZHPQ3Zg8zZB/BZ1oDgt77LGo5np3rbto3/gloTyB40AS2H3I72Y"
    \o << 98, 78, 67, 68, 75, 115, 97, 111, 90, 72, 80, 81, 51, 90, 103, 56,
        122, 90, 66, 47, 66, 90, 49, 111, 68, 103, 116, 55, 55, 76, 71, 111,
        53, 110, 112, 51, 114, 98, 116, 111, 51, 47, 103, 108, 111, 84, 121, 66,
        52, 48, 65, 83, 50, 72, 51, 73, 55, 50, 89 >>
    \* "CbDk4hKpm7J7NnFy2Xrt39TJG0ORFg+zEQIhIxASMMEDIEJBJAABkxCSgSM"
    \o << 67, 98, 68, 107, 52, 104, 75, 112, 109, 55, 74, 55, 78, 110, 70, 121,
        50, 88, 114, 116, 51, 57, 84, 74, 71, 48, 79, 82, 70, 103, 43, 122,
        69, 81, 73, 104, 73, 120, 65, 83, 77, 77, 69, 68, 73, 69, 74, 66,
        74, 65, 65, 66, 107, 120, 67, 83, 103, 83, 77 >>
    \* "QcyAxIQMQglEhAxAiEEDRAiQAAuMwAAMwEAEjEJMgMSEDMABykSEDMBByoS"
    \o << 81, 99, 121, 65, 120, 73, 81, 77, 81, 103, 108, 69, 104, 65, 120, 65,
        105, 69, 69, 68, 82, 65, 105, 81, 65, 65, 117, 77, 119, 65, 65, 77,
        119, 69, 65, 69, 106, 69, 74, 77, 103, 77, 83, 69, 68, 77, 65, 66,
        121, 107, 83, 69, 68, 77, 66, 66, 121, 111, 83 >>
    \* "EDMACCEFCzMBCCEGCxIQMwAIIQcPEBA="
    \o << 69, 68, 77, 65, 67, 67, 69, 70, 67, 122, 77, 66, 67, 67, 69, 71,
        67, 120, 73, 81, 77, 119, 65, 73, 73, 81, 99, 80, 69, 66, 65, 61 >>

\* HTLC.get_program: the text of orig, as character codes (one source
\* line of the literal per group)
HTLCOrigText ==
    \* "ASAEBQEABiYDIP68oLsUSlpOp7Q4pGgayA5soQW8tgf8VlMlyVaV9qITAQ"
    << 65, 83, 65, 69, 66, 81, 69, 65, 66, 105, 89, 68, 73, 80, 54, 56,
        111, 76, 115, 85, 83, 108, 112, 79, 112, 55, 81, 52, 112, 71, 103, 97,
        121, 65, 53, 115, 111, 81, 87, 56, 116, 103, 102, 56, 86, 108, 77, 108,
        121, 86, 97, 86, 57, 113, 73, 84, 65, 81 >>
    \* "Yg5pqWHm8tX3rIZgeSZVK+mCNe0zNjyoiRi7nJOKkVtvkxASIOMRAjEhAx"
    \o << 89, 103, 53, 112, 113, 87, 72, 109, 56, 116, 88, 51, 114, 73, 90, 103,
        101, 83, 90, 86, 75, 43, 109, 67, 78, 101, 48, 122, 78, 106, 121, 111,
        105, 82, 105, 55, 110, 74, 79, 75, 107, 86, 116, 118, 107, 120, 65, 83,
        73, 79, 77, 82, 65, 106, 69, 104, 65, 120 >>
    \* "BzIDEhAxCCQSEDEJKBItASkSEDEJKhIxAiUNEBEQ"
    \o << 66, 122, 73, 68, 69, 104, 65, 120, 67, 67, 81, 83, 69, 68, 69, 74,
        75, 66, 73, 116, 65, 83, 107, 83, 69, 68, 69, 74, 75, 104, 73, 120,
        65, 105, 85, 78, 69, 66, 69, 81 >>

\* DynamicFee.get_program: the text of orig, as character codes (one source
\* line of the literal per group)
DynamicFeeOrigText ==
    \* "ASAFAgEFBgcmAyD+vKC7FEpaTqe0OKRoGsgObKEFvLYH/FZTJclWlfaiEy"
    << 65, 83, 65, 70, 65, 103, 69, 70, 66, 103, 99, 109, 65, 121, 68, 43,
        118, 75, 67, 55, 70, 69, 112, 97, 84, 113, 101, 48, 79, 75, 82, 111,
        71, 115, 103, 79, 98, 75, 69, 70, 118, 76, 89, 72, 47, 70, 90, 84,
        74, 99, 108, 87, 108, 102, 97, 105, 69, 121 >>
    \* "DmmpYeby1feshmB5JlUr6YI17TM2PKiJGLuck4qRW2+QEGMgQiEjMAECMS"
    \o << 68, 109, 109, 112, 89, 101, 98, 121, 49, 102, 101, 115, 104, 109, 66, 53,
        74, 108, 85, 114, 54, 89, 73, 49, 55, 84, 77, 50, 80, 75, 105, 74,
        71, 76, 117, 99, 107, 52, 113, 82, 87, 50, 43, 81, 69, 71, 77, 103,
        81, 105, 69, 106, 77, 65, 69, 67, 77, 83 >>
    \* "EDMABzEAEhAzAAgxARIQMRYjEhAxECMSEDEHKBIQMQkpEhAxCCQSEDECJR"
    \o << 69, 68, 77, 65, 66, 122, 69, 65, 69, 104, 65, 122, 65, 65, 103, 120,
        65, 82, 73, 81, 77, 82, 89, 106, 69, 104, 65, 120, 69, 67, 77, 83,
        69, 68, 69, 72, 75, 66, 73, 81, 77, 81, 107, 112, 69, 104, 65, 120,
        67, 67, 81, 83, 69, 68, 69, 67, 74, 82 >>
    \* "IQMQQhBBIQMQYqEhA="
    \o << 73, 81, 77, 81, 81, 104, 66, 66, 73, 81, 77, 81, 89, 113, 69, 104,
        65, 61 >>

\* PeriodicPayment.get_program: the text of orig, as character codes (one source
\* line of the literal per group)
PeriodicPaymentOrigText ==
    \* "ASAHAQUGAAcICSYCIH+DsWV/8fxTuS3BgUih1l38LUsfo9Z3KErd0gASbZ"
    << 65, 83, 65, 72, 65, 81, 85, 71, 65, 65, 99, 73, 67, 83, 89, 67,
        73, 72, 43, 68, 115, 87, 86, 47, 56, 102, 120, 84, 117, 83, 51, 66,
        103, 85, 105, 104, 49, 108, 51, 56, 76, 85, 115, 102, 111, 57, 90, 51,
        75, 69, 114, 100, 48, 103, 65, 83, 98, 90 >>
    \* "BpILO3BCfT4PJw36+yT68lZyyjP9vs0NLqLfcc6S9Ol/5iMRAiEjEBIw4Q"
    \o << 66, 112, 73, 76, 79, 51, 66, 67, 102, 84, 52, 80, 74, 119, 51, 54,
        43, 121, 84, 54, 56, 108, 90, 121, 121, 106, 80, 57, 118, 115, 48, 78,
        76, 113, 76, 102, 99, 99, 54, 83, 57, 79, 108, 47, 53, 105, 77, 82,
        65, 105, 69, 106, 69, 66, 73, 119, 52, 81 >>
    \* "MQIkGCUSEDEEIQQxAggSEDEGKBIQMQkyAxIxBykSEDEIIQUSEDEJKRIxBz"
    \o << 77, 81, 73, 107, 71, 67, 85, 83, 69, 68, 69, 69, 73, 81, 81, 120,
        65, 103, 103, 83, 69, 68, 69, 71, 75, 66, 73, 81, 77, 81, 107, 121,
        65, 120, 73, 120, 66, 121, 107, 83, 69, 68, 69, 73, 73, 81, 85, 83,
        69, 68, 69, 74, 75, 82, 73, 120, 66, 122 >>
    \* "IDEhAxAiEGDRAxCCUSEBEQ"
    \o << 73, 68, 69, 104, 65, 120, 65, 105, 69, 71, 68, 82, 65, 120, 67, 67,
        85, 83, 69, 66, 69, 81 >>
SplitOrig == b64decode(SplitOrigText).bytes
HTLCOrig == b64decode(HTLCOrigText).bytes
DynamicFeeOrig == b64decode(DynamicFeeOrigText).bytes
PeriodicPaymentOrig == b64decode(PeriodicPaymentOrigText).bytes

\* constants.lease_length
LeaseLength == 32

Split_init(owner, receiver_1, receiver_2, ratn, ratd, expiry_round, min_pay, max_fee) ==
    [cls |-> "Split", owner |-> owner, receiver_1 |-> receiver_1,
     receiver_2 |-> receiver_2, ratn |-> ratn, ratd |-> ratd,
     expiry_round |-> expiry_round, min_pay |-> min_pay, max_fee |-> max_fee]

HTLC_init(owner, receiver, hash_function, hash_image, expiry_round, max_fee) ==
    [cls |-> "HTLC", owner |-> owner, receiver |-> receiver,
     hash_function |-> hash_function, hash_image |-> hash_image,
     expiry_round |-> expiry_round, max_fee |-> max_fee]

\* rnd: the LeaseLength bytes random.randint draws.  self.last_valid is
\* assigned before the default is computed, and the default stays in the
\* local name last_valid only
DynamicFee_init(receiver, amount, first_valid, last_valid, close_remainder_address, rnd) ==
    [cls |-> "DynamicFee",
     lease_value |-> PyText(b64encode(rnd)),
     last_valid |-> last_valid,
     amount |-> amount, first_valid |-> first_valid,
     close_remainder_address |->
         IF close_remainder_address = PyNone
         THEN PyBytes(Repeat(0, 32)) ELSE close_remainder_address,
     receiver |-> receiver]

PeriodicPayment_init(receiver, amount, withdrawing_window, period, fee, timeout, rnd) ==
    [cls |-> "PeriodicPayment", lease_value |-> PyBytes(rnd), receiver |-> receiver,
     amount |-> amount, withdrawing_window |-> withdrawing_window,
     period |-> period, fee |-> fee, timeout |-> timeout]

LimitOrder_init(owner, ratn, ratd, expiry_round, min_trade, max_fee) ==
    [cls |-> "LimitOrder", owner |-> owner, ratn |-> ratn, ratd |-> ratd,
     expiry_round |-> expiry_round, min_trade |-> min_trade, max_fee |-> max_fee]

\* base64.b64encode(inject(...)).decode(), or the exception inject raised
program_text(r) ==
    IF r.status = "returned"
    THEN [status |-> "returned", value |-> PyText(b64encode(r.res))]
    ELSE [status |-> r.status, value |-> PyNone]

Split_get_program(s) ==
    program_text(inject(SplitOrig,
        <<4, 7, 8, 9, 10, 14, 47, 80>>,
        <<s.max_fee, s.expiry_round, s.ratn, s.ratd, s.min_pay,
          s.owner, s.receiver_1, s.receiver_2>>,
        <<"int", "int", "int", "int", "int", "address", "address", "address">>))

HTLC_get_program(s) ==
    LET hash_inject == IF s.hash_function = "sha256" THEN 1
                       ELSE IF s.hash_function = "keccak256" THEN 2 ELSE 0
    IN program_text(inject(HTLCOrig,
        <<3, 6, 10, 42, 44, 101>>,
        <<s.max_fee, s.expiry_round, s.receiver, s.hash_image, s.owner,
          PyInt(hash_inject)>>,
        <<"int", "int", "address", "base64", "address", "int">>))

DynamicFee_get_program(s) ==
    program_text(inject(DynamicFeeOrig,
        <<5, 6, 7, 11, 44, 76>>,
        <<s.amount, s.first_valid, s.last_valid, s.receiver,
          s.close_remainder_address, s.lease_value>>,
        <<"int", "int", "int", "address", "address", "base64">>))

PeriodicPayment_get_program(s) ==
    program_text(inject(PeriodicPaymentOrig,
        <<4, 5, 7, 8, 9, 12, 45>>,
        <<s.fee, s.period, s.withdrawing_window, s.amount, s.timeout,
          s.lease_value, s.receiver>>,
        <<"int", "int", "int", "int", "int", "base64", "address">>))

\* LimitOrder.get_program is a stub: it returns None
LimitOrder_get_program(s) == [status |-> "returned", value |-> PyNone]

\* self.get_program(), by the class of self
get_program(s) ==
    IF s.cls = "Split" THEN Split_get_program(s)
    ELSE IF s.cls = "HTLC" THEN HTLC_get_program(s)
    ELSE IF s.cls = "DynamicFee" THEN DynamicFee_get_program(s)
    ELSE IF s.cls = "PeriodicPayment" THEN PeriodicPayment_get_program(s)
    ELSE LimitOrder_get_program(s)

\* constants.logic_prefix, b"Program"
logic_prefix == <<80, 114, 111, 103, 114, 97, 109>>

\* Template.get_address: the address is a function of logic_prefix + the
\* program bytes; encoding.checksum and encoding.encode_address are kept
\* symbolic.  p is what self.get_program() returned or raised
address_of_program(p) ==
    IF p.status # "returned" THEN [status |-> p.status, value |-> PyNone]
    ELSE IF p.value = PyNone THEN [status |-> "TypeError", value |-> PyNone]
    ELSE [status |-> "returned",
          value |-> [ty |-> "str",
                     address_of |-> logic_prefix \o b64decode(p.value.chars).bytes]]

get_address(s) == address_of_program(get_program(s))

-----------------------------------------------------------------------------
(* Split.get_send_funds_transaction *)

RECURSIVE gcd(_, _)
\* math.gcd
gcd(a, b) == IF b = 0 THEN a ELSE gcd(b, a % b)

\* round(num / den) for num >= 0, den > 0: Python rounds a tie to the even
\* neighbour.  The source computes amount / ratd * ratn in floating point;
\* for the amounts and ratios of this model (far below 2^26) the float
\* result rounds to the same integer as the exact quotient.
round_half_even(num, den) ==
    LET q == num \div den
        r == num % den
    IN IF 2 * r < den THEN q
       ELSE IF 2 * r > den THEN q + 1
       ELSE IF q % 2 = 0 THEN q ELSE q + 1

\* round(amount / ratd * ratn)
approx_share_roundFirst(amount, ratn, ratd) == round_half_even(amount, ratd) * ratn
approx_share(amount, ratn, ratd) == round_half_even(amount * ratn, ratd)

\* amount % ratd == 0, with ratd the reduced denominator
divisible_byFullDenominator(s, amount) == amount % s.ratd.v = 0
divisible(s, amount) == amount % (s.ratd.v \div gcd(s.ratn.v, s.ratd.v)) = 0

\* the amounts computed before the transactions are built, or the error
split_amounts(s, amount, precise) ==
    LET amt_1_0 == 0
        amt_2_0 == 0
        g == gcd(s.ratn.v, s.ratd.v)
        ratn == s.ratn.v \div g
        ratd == s.ratd.v \div g
    IN IF divisible(s, amount)
       THEN [raised |-> FALSE, amt_1 |-> (amount \div ratd) * ratn,
             amt_2 |-> amount - amt_2_0]
       ELSE IF precise
       THEN [raised |-> TRUE, amt_1 |-> amt_1_0, amt_2 |-> amt_2_0]
       ELSE LET amt_1 == approx_share(amount, ratn, ratd)
            IN [raised |-> FALSE, amt_1 |-> amt_1, amt_2 |-> amount - amt_1]

\* transaction.PaymentTxn
PaymentTxn(sender, fee, first_valid, last_valid, gh, receiver, amt) ==
    [sender |-> sender, fee |-> fee, first_valid |-> first_valid,
     last_valid |-> last_valid, gh |-> gh, receiver |-> receiver, amt |-> amt,
     group |-> PyNone]

\* transaction.assign_group_id: every transaction of the list gets the group id
assign_group_id(txns) ==
    [k \in DOMAIN txns |-> [txns[k] EXCEPT !.group = [ty |-> "bytes", group_of |-> txns]]]

\* transaction.LogicSigTransaction(txn, transaction.LogicSig(program))
LogicSigTransaction(txn, program) == [transaction |-> txn, lsig |-> program]

NoCall == [status |-> "none", amount |-> 0, precise |-> TRUE,
           txns |-> <<>>, grouped |-> FALSE, stxs |-> <<>>]

\* the call raised exc: nothing was built
RaisedCall(exc, amount, precise) ==
    [NoCall EXCEPT !.status = exc, !.amount = amount, !.precise = precise]

\* [stx_1, stx_2], returned
ReturnedCall(amount, precise, txns, lsig) ==
    [status |-> "returned", amount |-> amount, precise |-> precise,
     txns |-> txns, grouped |-> TRUE,
     stxs |-> <<LogicSigTransaction(txns[1], lsig), LogicSigTransaction(txns[2], lsig)>>]

\* txn_1 and txn_2, with their group id assigned
payments(s, a, sender, first_valid, last_valid, gh) ==
    assign_group_id(
        <<PaymentTxn(sender, s.max_fee, first_valid, last_valid, gh, s.receiver_1, a.amt_1),
          PaymentTxn(sender, s.max_fee, first_valid, last_valid, gh, s.receiver_2, a.amt_2)>>)

\* the call from the amounts a on: sender is what self.get_address()
\* returned or raised, p what self.get_program() did
send_funds(s, a, sender, p, amount, first_valid, last_valid, gh, precise) ==
    IF a.raised THEN RaisedCall("NotDivisibleError", amount, precise)
    ELSE IF sender.status # "returned" THEN RaisedCall(sender.status, amount, precise)
    ELSE ReturnedCall(amount, precise,
                      payments(s, a, sender.value, first_valid, last_valid, gh),
                      b64decode(p.value.chars).bytes)

\* the outcome of one call: the payments built, whether they were grouped,
\* the list returned, or the exception raised
get_send_funds_transaction(s, amount, first_valid, last_valid, gh, precise) ==
    send_funds(s, split_amounts(s, amount, precise), get_address(s), get_program(s),
               amount, first_valid, last_valid, gh, precise)

-----------------------------------------------------------------------------
(* bounds and the inputs drawn *)

MaxRat == 10        \* ratn in 0..MaxRat, ratd in 1..MaxRat
MaxAmount == 20     \* amount in 0..MaxAmount
MaxUvarint == 16500 \* put_uvarint is called on every x in 0..MaxUvarint
MaxSpecs == 2       \* placeholders in one inject call
MaxCalls == 2       \* calls of inject with the same argument objects,
                    \* and of get_program between two assignments
MaxAssign == 1      \* field assignments on one instance

\* larger arguments of put_uvarint: the last value of each encoded length
\* and the first of the next, up to five bytes
BigUvarints ==
    {16383, 16384, 2097151, 2097152, 268435455, 268435456, 2147483647}

Addresses == {PyAddr("A"), PyAddr("B"), PyAddr("C")}

\* the program inject is called on: 40 bytes, byte k of value k
Program == [k \in 1..40 |-> k]

\* offsets of placeholders: the last one lies beyond the program
Offsets == {0, 3, 36, 50}

\* a value with the type it is passed with: integers of one, two and three
\* encoded bytes, None, an address, base64 texts ("" decodes to no bytes,
\* "AQID" to three, "A" is malformed), and a type inject does not know
TypedValues ==
    {<<PyInt(0), "int">>, <<PyInt(128), "int">>, <<PyInt(16384), "int">>,
     <<PyNone, "int">>,
     <<PyAddr("A"), "address">>,
     <<PyText(<<>>), "base64">>, <<PyText(<<65, 81, 73, 68>>), "base64">>,
     <<PyText(<<65>>), "base64">>,
     <<PyInt(1), "bytes">>}

\* the bytes random.randint may draw for a lease: no base64 character at
\* all, only base64 characters, and 31 of them
LeaseDraws ==
    {Repeat(0, LeaseLength), Repeat(65, LeaseLength),
     Repeat(65, LeaseLength - 1) \o <<0>>}

\* the constructor calls of the model
Constructions ==
    {[cls |-> "Split", ratn |-> PyInt(n), max_fee |-> PyInt(f)] :
        n \in {30, 300}, f \in {1000}}
    \cup {[cls |-> "HTLC", hash_function |-> h] : h \in {"sha256", "keccak256", "md5"}}
    \cup {[cls |-> "DynamicFee", first_valid |-> PyInt(5), last_valid |-> lv,
           close_remainder_address |-> c, rnd |-> r] :
            lv \in {PyNone, PyInt(2000)}, c \in {PyNone, PyAddr("B")}, r \in LeaseDraws}
    \cup {[cls |-> "PeriodicPayment", rnd |-> r] : r \in LeaseDraws}
    \cup {[cls |-> "LimitOrder"]}

\* the instance a constructor call returns
Construct(c) ==
    IF c.cls = "Split"
    THEN Split_init(PyAddr("A"), PyAddr("B"), PyAddr("C"), c.ratn, PyInt(100),
                    PyInt(5000), PyInt(128), c.max_fee)
    ELSE IF c.cls = "HTLC"
    THEN HTLC_init(PyAddr("A"), PyAddr("B"), c.hash_function,
                   PyText(<<65, 81, 73, 68>>), PyInt(70000), PyInt(1000))
    ELSE IF c.cls = "DynamicFee"
    THEN DynamicFee_init(PyAddr("A"), PyInt(300), c.first_valid, c.last_valid,
                         c.close_remainder_address, c.rnd)
    ELSE IF c.cls = "PeriodicPayment"
    THEN PeriodicPayment_init(PyAddr("A"), PyInt(300), PyInt(5), PyInt(100),
                              PyInt(1000), PyInt(999999), c.rnd)
    ELSE LimitOrder_init(PyAddr("A"), PyInt(1), PyInt(2), PyInt(5000), PyInt(10),
                         PyInt(1000))

\* the integer fields a caller assigns to, and the values assigned
AssignableFields(s) ==
    IF s.cls = "Split" THEN {"max_fee", "ratn"}
    ELSE IF s.cls = "HTLC" THEN {"max_fee"}
    ELSE IF s.cls = "DynamicFee" THEN {"amount", "last_valid"}
    ELSE IF s.cls = "PeriodicPayment" THEN {"fee"}
    ELSE {"max_fee"}

AssignedValues == {PyInt(0), PyInt(1005)}

-----------------------------------------------------------------------------
(* the state machines *)

SplitIdle == sf = NoCall
VarintIdle == uv = [called |-> FALSE, x |-> 0, buf0 |-> <<>>, buf |-> <<>>, ret |-> 0]
InjectIdle ==
    /\ pc = "idle" /\ orig = <<>> /\ offsets = <<>> /\ values = <<>>
    /\ values_types = <<>> /\ res = <<>> /\ i = 0
    /\ offsets0 = <<>> /\ patchedAt = <<>> /\ lenAt = <<>>
    /\ calls = 0 /\ firstRes = <<>>
TemplateIdle ==
    /\ ctor = [cls |-> "LimitOrder", assigned |-> 0]
    /\ self = Construct([cls |-> "LimitOrder"])
    /\ outs = <<>>

\* a Split instance with the ratio ratn : ratd
InitSplit ==
    /\ \E n \in 0..MaxRat, d \in 1..MaxRat :
          /\ ctor = [cls |-> "Split", ratn |-> PyInt(n), ratd |-> PyInt(d),
                     assigned |-> 0]
          /\ self = Split_init(PyAddr("A"), PyAddr("B"), PyAddr("C"), PyInt(n),
                               PyInt(d), PyInt(5000), PyInt(128), PyInt(1000))
    /\ outs = <<>>
    /\ SplitIdle /\ VarintIdle /\ InjectIdle

InitVarint == SplitIdle /\ VarintIdle /\ InjectIdle /\ TemplateIdle

InitInject == SplitIdle /\ VarintIdle /\ InjectIdle /\ TemplateIdle

InitTemplates ==
    /\ \E c \in Constructions :
          /\ ctor = [a \in DOMAIN c \cup {"assigned"} |->
                        IF a = "assigned" THEN 0 ELSE c[a]]
          /\ self = Construct(c)
    /\ outs = <<>>
    /\ SplitIdle /\ VarintIdle /\ InjectIdle

\* self.get_send_funds_transaction(amount, first_valid, last_valid, gh, precise),
\* called on the instance as constructed; sf keeps the outcome of the call
GetSendFundsTransaction ==
    /\ self.cls = "Split" /\ sf.status = "none"
    /\ \E amount \in 0..MaxAmount, precise \in BOOLEAN :
          sf' = get_send_funds_transaction(self, amount, 1, 1001, "gh", precise)
    /\ UNCHANGED <<templateVars, uv, injectVars>>

\* put_uvarint(buf, x) on a list buf that is empty or already holds a byte;
\* uv keeps the call and its outcome
PutUvarint ==
    /\ ~uv.called
    /\ \E x \in (0..MaxUvarint) \cup BigUvarints, b \in {<<>>, <<255>>} :
          LET r == put_uvarint(b, x)
          IN uv' = [called |-> TRUE, x |-> x, buf0 |-> b, buf |-> r.buf, ret |-> r.ret]
    /\ UNCHANGED <<templateVars, sf, injectVars>>

\* inject(orig, offsets, values, values_types) is entered: the assertion,
\* then res = orig[:]
InjectCall ==
    /\ pc = "idle"
    /\ \E n \in 0..MaxSpecs :
       \E os \in [1..n -> Offsets], vt \in [1..n -> TypedValues], short \in BOOLEAN :
          /\ short => n > 0
          /\ orig' = Program
          /\ offsets' = os
          /\ values' = [k \in 1..(IF short THEN n - 1 ELSE n) |-> vt[k][1]]
          /\ values_types' = [k \in 1..n |-> vt[k][2]]
          /\ offsets0' = os
          /\ pc' = IF short THEN "AssertionError" ELSE "loop"
          /\ res' = IF short THEN <<>> ELSE Program
    /\ i' = 0 /\ calls' = 1
    /\ patchedAt' = <<>> /\ lenAt' = <<>> /\ firstRes' = <<>>
    /\ UNCHANGED <<templateVars, sf, uv>>

\* the iteration at index i had outcome b
inject_step(b) ==
    /\ res' = b.res
    /\ offsets' = b.offsets
    /\ pc' = IF b.status = "ok" THEN "loop" ELSE b.status
    /\ i' = IF b.status = "ok" THEN i + 1 ELSE i
    /\ patchedAt' = IF b.status = "ok" THEN Append(patchedAt, offsets[i + 1])
                    ELSE patchedAt
    /\ lenAt' = IF b.status = "ok" THEN Append(lenAt, Len(res)) ELSE lenAt

\* one iteration of the loop
InjectStep ==
    /\ pc = "loop" /\ i < Len(offsets)
    /\ inject_step(inject_body(res, offsets, values[i + 1], values_types[i + 1], i))
    /\ UNCHANGED <<templateVars, sf, uv, orig, values, values_types, offsets0,
                   calls, firstRes>>

\* return res
InjectReturn ==
    /\ pc = "loop" /\ i >= Len(offsets)
    /\ pc' = "returned"
    /\ firstRes' = IF calls = 1 THEN res ELSE firstRes
    /\ UNCHANGED <<templateVars, sf, uv, orig, offsets, values, values_types, res, i,
                   offsets0, patchedAt, lenAt, calls>>

\* the caller calls inject again with the same four objects
InjectAgain ==
    /\ pc \notin {"idle", "loop"} /\ calls < MaxCalls
    /\ pc' = IF Len(offsets) = Len(values) /\ Len(values) = Len(values_types)
             THEN "loop" ELSE "AssertionError"
    /\ res' = IF Len(offsets) = Len(values) /\ Len(values) = Len(values_types)
              THEN orig ELSE <<>>
    /\ i' = 0 /\ calls' = calls + 1
    /\ patchedAt' = <<>> /\ lenAt' = <<>>
    /\ UNCHANGED <<templateVars, sf, uv, orig, offsets, values, values_types,
                   offsets0, firstRes>>

\* self.get_program(): nothing of self is assigned; the lists of offsets,
\* values and types are built anew by every call
GetProgram_freshLease ==
    /\ Len(outs) < MaxCalls
    /\ outs' = Append(outs, [result |-> get_program(self), self_before |-> self])
    /\ \E r \in LeaseDraws :
          self' = IF self.cls = "DynamicFee"
                  THEN [self EXCEPT !.lease_value = PyText(b64encode(r))]
                  ELSE IF self.cls = "PeriodicPayment"
                  THEN [self EXCEPT !.lease_value = PyBytes(r)]
                  ELSE self
    /\ UNCHANGED <<ctor, sf, uv, injectVars>>
GetProgram ==
    /\ Len(outs) < MaxCalls
    /\ outs' = Append(outs, [result |-> get_program(self), self_before |-> self])
    /\ UNCHANGED <<self, ctor, sf, uv, injectVars>>

\* self.<field> = <value>, by the caller
AssignField ==
    /\ ctor.assigned < MaxAssign
    /\ \E f \in AssignableFields(self), v \in AssignedValues :
          self' = [self EXCEPT ![f] = v]
    /\ ctor' = [ctor EXCEPT !.assigned = @ + 1]
    /\ outs' = <<>>
    /\ UNCHANGED <<sf, uv, injectVars>>

NextSplit == GetSendFundsTransaction
NextVarint == PutUvarint
NextInject == InjectCall \/ InjectStep \/ InjectReturn \/ InjectAgain
NextTemplates == GetProgram \/ AssignField

SpecSplit == InitSplit /\ [][NextSplit]_vars
SpecVarint == InitVarint /\ [][NextVarint]_vars
SpecInject == InitInject /\ [][NextInject]_vars
SpecTemplates == InitTemplates /\ [][NextTemplates]_vars

-----------------------------------------------------------------------------
(* what the properties below are stated with *)

Divides(d, n) == \E q \in 0..n : q * d = n

\* gcd by its definition: the largest number dividing both
GreatestCommonDivisor(a, b) ==
    CHOOSE g \in 1..(a + b) :
        /\ Divides(g, a) /\ Divides(g, b)
        /\ \A h \in 1..(a + b) : Divides(h, a) /\ Divides(h, b) => h <= g

\* ratd / gcd(ratn, ratd) of the instance
ReducedDenominator == self.ratd.v \div GreatestCommonDivisor(self.ratn.v, self.ratd.v)
ReducedNumerator == self.ratn.v \div GreatestCommonDivisor(self.ratn.v, self.ratd.v)

Abs(n) == IF n < 0 THEN 0 - n ELSE n

RECURSIVE Sum(_, _)
\* f[1] + ... + f[n]
Sum(f, n) == IF n = 0 THEN 0 ELSE f[n] + Sum(f, n - 1)

RECURSIVE uvarint_value(_)
\* the number a little-endian base-128 byte sequence stands for
uvarint_value(bs) ==
    IF bs = <<>> THEN 0 ELSE (bs[1] % 128) + (128 * uvarint_value(Tail(bs)))

RECURSIVE VarintLength(_)
\* the number of base-128 digits of x
VarintLength(x) == IF x < 128 THEN 1 ELSE 1 + VarintLength(x \div 128)

\* the bytes the put_uvarint call appended to buf
Appended == SubSeq(uv.buf, Len(uv.buf0) + 1, Len(uv.buf))

\* placeholder k of the inject call: its reserved width, the length of its
\* encoded value, and the difference
ReservedWidth(k) ==
    IF values_types[k] = "int" THEN 1
    ELSE IF values_types[k] = "address" THEN 32 ELSE 2

BlobLength(k) == Len(b64decode(values[k].chars).bytes)

EncodedLength(k) ==
    IF values_types[k] = "int" THEN VarintLength(values[k].v)
    ELSE IF values_types[k] = "address" THEN 32
    ELSE VarintLength(BlobLength(k)) + BlobLength(k)

LengthDelta(k) == EncodedLength(k) - ReservedWidth(k)

\* the bytes placeholder k is encoded to
EncodedBytes(k) ==
    IF values_types[k] = "int" THEN put_uvarint(<<>>, values[k].v).buf
    ELSE decode_address(values[k])

\* what the code adds to every entry of offsets after placeholder k
CodeShift(k) == IF values_types[k] = "address" THEN 0 ELSE EncodedLength(k) - 1

\* the placeholders processed so far in this call
Processed == 1..Len(patchedAt)

\* every replacement so far lay inside the program as it then was
PatchedInside == \A k \in Processed : patchedAt[k] + ReservedWidth(k) <= lenAt[k]

\* the caller's list was in ascending order of offset, without overlap
Ascending ==
    \A k \in 1..(Len(offsets0) - 1) : offsets0[k] + ReservedWidth(k) <= offsets0[k + 1]

\* only the two kinds whose offset shift equals their length delta
OnlyIntAndAddress == \A k \in DOMAIN values_types : values_types[k] \in {"int", "address"}

\* the position the original offset of placeholder k maps to in the
\* output: the offset plus the length deltas of the placeholders that lie
\* before it in the original program
OutputPosition(k) ==
    offsets0[k]
    + Sum([j \in DOMAIN offsets0 |->
              IF offsets0[j] < offsets0[k] THEN LengthDelta(j) ELSE 0], Len(offsets0))

\* the permutation that sorts the caller's (distinct) offsets
SortingOrder ==
    CHOOSE f \in [DOMAIN offsets0 -> DOMAIN offsets0] :
        /\ \A a, b \in DOMAIN offsets0 : a # b => f[a] # f[b]
        /\ \A a, b \in DOMAIN offsets0 : a < b => offsets0[f[a]] < offsets0[f[b]]

DistinctOffsets == \A a, b \in DOMAIN offsets0 : a # b => offsets0[a] # offsets0[b]

-----------------------------------------------------------------------------
(* Split.get_send_funds_transaction *)

\* C1: in exact mode, for an amount that is a multiple of the reduced
\* denominator, receiver_1 is paid (amount / reduced ratd) * reduced ratn
\* and receiver_2 is paid amount minus that, so the payments add up to
\* amount.  The code pays receiver_2 the whole amount.
C1_ExactSplitSumsToAmount ==
    (sf.status = "returned" /\ sf.precise /\ sf.amount % ReducedDenominator = 0)
    => /\ sf.txns[1].receiver = self.receiver_1
       /\ sf.txns[1].amt = (sf.amount \div ReducedDenominator) * ReducedNumerator
       /\ sf.txns[2].receiver = self.receiver_2
       /\ sf.txns[2].amt = sf.amount - sf.txns[1].amt
       /\ sf.txns[1].amt + sf.txns[2].amt = sf.amount

\* C2: NotDivisibleError is raised exactly when precise is set and amount is
\* not a multiple of the reduced denominator; when it is raised no payment
\* was built, grouped or wrapped; without precise it is never raised.
C2_NotDivisibleExactlyWhenPrecise ==
    sf.status # "none"
    => /\ (sf.status = "NotDivisibleError")
              <=> (sf.precise /\ sf.amount % ReducedDenominator # 0)
       /\ sf.status = "NotDivisibleError"
              => sf.txns = <<>> /\ ~sf.grouped /\ sf.stxs = <<>>
       /\ ~sf.precise => sf.status = "returned"

\* an exact call with amount 11 on the ratio 3 : 10 raised
C2_Witness ==
    /\ sf.status = "NotDivisibleError" /\ sf.precise /\ sf.amount = 11
    /\ self.ratn.v = 3 /\ self.ratd.v = 10

-----------------------------------------------------------------------------
(* put_uvarint *)

\* C6: the bytes put_uvarint appends are the little-endian base-128
\* encoding of x: every byte but the last has its high bit set and the last
\* has it clear, they decode to x, they are the one shortest such sequence
\* whatever buf held before, the value returned is their number, and 0 is
\* encoded as the single byte 0.
C6_PutUvarintRoundTrip ==
    uv.called
    => /\ SubSeq(uv.buf, 1, Len(uv.buf0)) = uv.buf0
       /\ Len(Appended) >= 1
       /\ \A k \in 1..(Len(Appended) - 1) : Appended[k] >= 128 /\ Appended[k] <= 255
       /\ Appended[Len(Appended)] >= 0 /\ Appended[Len(Appended)] < 128
       /\ Len(Appended) > 1 => Appended[Len(Appended)] # 0
       /\ uvarint_value(Appended) = uv.x
       /\ uv.ret = Len(Appended)
       /\ uv.x = 0 => Appended = <<0>>

\* 16384 was appended as three bytes to a list that held a byte already
C6_Witness ==
    /\ uv.called /\ uv.x = 16384 /\ uv.buf0 = <<255>>
    /\ uv.buf = <<255, 128, 128, 1>> /\ uv.ret = 3

-----------------------------------------------------------------------------
(* inject *)

\* C3: in a first call on a list in ascending order, every placeholder is
\* replaced at its original offset plus the length deltas (encoded length
\* minus reserved width, none negative) of the placeholders before it; after
\* a base64 placeholder the offsets have moved by varint length + blob
\* length - 2.  The code moves them by one byte more.
C3_CascadeByLengthDelta ==
    (calls = 1 /\ pc \in {"loop", "returned"} /\ Ascending
        /\ \A k \in Processed : LengthDelta(k) >= 0)
    => /\ \A k \in Processed :
             patchedAt[k]
                = offsets0[k] + Sum([j \in Processed |->
                                        IF j < k THEN LengthDelta(j) ELSE 0],
                                    Len(patchedAt))
       /\ (Len(patchedAt) = 1 /\ values_types[1] = "base64")
             => \A m \in DOMAIN offsets :
                   offsets[m] - offsets0[m]
                      = (VarintLength(BlobLength(1)) + BlobLength(1)) - 2

\* C4: whatever a call does (return, AssertionError, the exception for an
\* unknown type), afterwards the caller's program and list of offsets hold
\* what they held before the first call, and a second call with the same
\* objects returns what the first returned.  The code updates the caller's
\* list of offsets in place.
C4_ArgumentsUnmodified ==
    pc \notin {"idle", "loop"}
    => /\ orig = Program
       /\ offsets = offsets0
       /\ (calls = 2 /\ pc = "returned") => res = firstRes

\* C5: while and after the loop runs, if every replacement so far lay inside
\* the program as it then was, len(res) is len(orig) plus the length deltas
\* of the placeholders processed so far (reserved width 1 for int, 32 for
\* address, 2 for base64).
C5_LengthIsOriginalPlusDeltas ==
    (pc \in {"loop", "returned"} /\ PatchedInside)
    => Len(res) = Len(orig) + Sum([k \in Processed |-> LengthDelta(k)], Len(patchedAt))

\* a call returned after replacing a base64 placeholder of three bytes and
\* an int placeholder of two, both inside the program
C5_Witness ==
    /\ pc = "returned" /\ calls = 1 /\ PatchedInside
    /\ values_types = <<"base64", "int">>
    /\ values = <<PyText(<<65, 81, 73, 68>>), PyInt(128)>>
    /\ offsets0 = <<0, 36>>
    /\ Len(res) = 43

-----------------------------------------------------------------------------
(* get_program *)

C8_DefaultLastValid ==
    (self.cls = "DynamicFee" /\ ctor.assigned = 0)
    => /\ self.last_valid = (IF ctor.last_valid = PyNone
                             THEN PyInt(ctor.first_valid.v + 1000)
                             ELSE ctor.last_valid)
       /\ \A k \in DOMAIN outs :
             outs[k].result
                = get_program([self EXCEPT !.last_valid =
                                  IF ctor.last_valid = PyNone
                                  THEN PyInt(ctor.first_valid.v + 1000)
                                  ELSE ctor.last_valid])

====
